---- MODULE Spec2Model ----
(***************************************************************************)
(* Two-layer ticket tagging (ali-elite/sindibad-task).                     *)
(*                                                                         *)
(* Texts are sequences of one-character strings, so that the keyword       *)
(* engine's whole-word regular expressions and the fallback analysis'      *)
(* substring tests are computed as the code computes them.  Confidences    *)
(* are integers in hundredths (0.7 is 70): every keyword score is a        *)
(* multiple of 0.1 and every confidence a multiple of 0.01.                *)
(***************************************************************************)
EXTENDS Integers, Sequences, FiniteSets, TLC

\* Python's None.
None == "None"

----------------------------------------------------------------------------
\* Text primitives (str.lower, str.strip, " ".join, substring test, \b).

UpperToLower ==
  [c \in {"A","B","C","F","H","I","L","N","P","R","T"} |->
     CASE c = "A" -> "a" [] c = "B" -> "b" [] c = "C" -> "c" [] c = "F" -> "f"
       [] c = "H" -> "h" [] c = "I" -> "i" [] c = "L" -> "l" [] c = "N" -> "n"
       [] c = "P" -> "p" [] c = "R" -> "r" [] c = "T" -> "t"]

LowerChar(c) ==
  IF c \in DOMAIN UpperToLower THEN UpperToLower[c] ELSE c

lower(text) ==
  [i \in 1..Len(text) |-> LowerChar(text[i])]

Whitespace ==
  {" ", "\t", "\n"}

MinOf(S) ==
  CHOOSE x \in S : \A y \in S : x <= y

MaxOf(S) ==
  CHOOSE x \in S : \A y \in S : x >= y

strip(text) ==
  LET keep == {i \in 1..Len(text) : text[i] \notin Whitespace}
  IN  IF keep = {} THEN <<>> ELSE SubSeq(text, MinOf(keep), MaxOf(keep))

RECURSIVE join(_)
join(texts) ==
  IF Len(texts) = 0 THEN <<>>
  ELSE IF Len(texts) = 1 THEN texts[1]
  ELSE texts[1] \o <<" ">> \o join(Tail(texts))

\* text[i .. i+Len(word)-1] = word
MatchAt(text, i, word) ==
  /\ i >= 1
  /\ i + Len(word) - 1 <= Len(text)
  /\ \A j \in 1..Len(word) : text[i + j - 1] = word[j]

\* Python: word in text
Contains(text, word) ==
  \E i \in 1..(Len(text) - Len(word) + 1) : MatchAt(text, i, word)

\* Python: any(word in text for word in words)
AnyIn(words, text) ==
  \E k \in 1..Len(words) : Contains(text, words[k])

\* \w of the re module, over the characters a text is made of.
WordChars ==
  {"a","b","c","d","e","f","g","h","i","j","k","l","m","n","o","p","q","r",
   "s","t","u","v","w","x","y","z","0","1","2","3","4","5","6","7","8","9",
   "_","A","B","C","F","H","I","L","N","P","R","T"}

IsWordAt(text, i) ==
  i >= 1 /\ i <= Len(text) /\ text[i] \in WordChars

\* \b holds between positions i-1 and i.
BoundaryAt(text, i) ==
  IsWordAt(text, i - 1) # IsWordAt(text, i)

\* rf'\b{re.escape(keyword)}\b' matches at position i.
WordMatchAt(text, i, keyword) ==
  /\ MatchAt(text, i, keyword)
  /\ BoundaryAt(text, i)
  /\ BoundaryAt(text, i + Len(keyword))

\* The alternation '|'.join(patterns): the first alternative, from the k-th
\* on, that matches at position i (0 when none does).
RECURSIVE FirstAlternative(_, _, _, _)
FirstAlternative(keywords, text, i, k) ==
  IF k > Len(keywords) THEN 0
  ELSE IF WordMatchAt(text, i, keywords[k]) THEN k
  ELSE FirstAlternative(keywords, text, i, k + 1)

\* pattern.findall(text) from position i: leftmost, non-overlapping matches.
\* Every alternative starts with \b, so nothing matches where \b fails.
\* k is the alternative that matches at i (0: none, the scan moves on).
RECURSIVE findall(_, _, _)
next_match(keywords, text, i, k) ==
  IF k = 0 THEN findall(keywords, text, i + 1)
  ELSE <<keywords[k]>> \o findall(keywords, text, i + Len(keywords[k]))

findall(keywords, text, i) ==
  IF i > Len(text) THEN <<>>
  ELSE next_match(keywords, text, i,
                  IF BoundaryAt(text, i)
                  THEN FirstAlternative(keywords, text, i, 1) ELSE 0)

----------------------------------------------------------------------------
\* Keyword tables of the two classifiers.

service_keywords ==
  <<
    [label |-> "Flight", keywords |-> <<
        <<"f","l","i","g","h","t">>,
        <<"f","l","i","g","h","t","s">>,
        <<"a","i","r","l","i","n","e">>,
        <<"a","i","r","w","a","y">>,
        <<"a","i","r","p","l","a","n","e">>,
        <<"a","i","r","c","r","a","f","t">>,
        <<"b","o","o","k","i","n","g"," ","r","e","f","e","r","e","n","c","e">>,
        <<"p","n","r">>,
        <<"d","e","p","a","r","t","u","r","e">>,
        <<"a","r","r","i","v","a","l">>,
        <<"g","a","t","e">>,
        <<"b","o","a","r","d","i","n","g">>,
        <<"s","e","a","t">>,
        <<"b","a","g","g","a","g","e">>,
        <<"c","h","e","c","k","-","i","n">>,
        <<"t","e","r","m","i","n","a","l">>,
        <<"p","i","l","o","t">>,
        <<"c","r","e","w">>,
        <<"t","u","r","b","u","l","e","n","c","e">>,
        <<"l","a","y","o","v","e","r">>,
        <<"c","o","n","n","e","c","t","i","n","g"," ","f","l","i","g","h","t">>
      >>],
    [label |-> "Hotel", keywords |-> <<
        <<"h","o","t","e","l">>,
        <<"h","o","t","e","l","s">>,
        <<"a","c","c","o","m","m","o","d","a","t","i","o","n">>,
        <<"r","o","o","m">>,
        <<"r","o","o","m","s">>,
        <<"s","u","i","t","e">>,
        <<"r","e","s","e","r","v","a","t","i","o","n">>,
        <<"c","h","e","c","k","-","i","n">>,
        <<"c","h","e","c","k","-","o","u","t">>,
        <<"l","o","b","b","y">>,
        <<"r","e","c","e","p","t","i","o","n">>,
        <<"h","o","u","s","e","k","e","e","p","i","n","g">>,
        <<"a","m","e","n","i","t","i","e","s">>,
        <<"b","r","e","a","k","f","a","s","t">>,
        <<"p","o","o","l">>,
        <<"s","p","a">>,
        <<"c","o","n","c","i","e","r","g","e">>,
        <<"b","e","d">>,
        <<"b","a","t","h","r","o","o","m">>,
        <<"w","i","f","i">>,
        <<"p","a","r","k","i","n","g">>
      >>],
    [label |-> "Visa", keywords |-> <<
        <<"v","i","s","a">>,
        <<"v","i","s","a","s">>,
        <<"p","a","s","s","p","o","r","t">>,
        <<"i","m","m","i","g","r","a","t","i","o","n">>,
        <<"e","m","b","a","s","s","y">>,
        <<"c","o","n","s","u","l","a","t","e">>,
        <<"a","p","p","l","i","c","a","t","i","o","n">>,
        <<"d","o","c","u","m","e","n","t","s">>,
        <<"p","r","o","c","e","s","s","i","n","g">>,
        <<"a","p","p","r","o","v","a","l">>,
        <<"r","e","j","e","c","t","i","o","n">>,
        <<"t","o","u","r","i","s","t"," ","v","i","s","a">>,
        <<"b","u","s","i","n","e","s","s"," ","v","i","s","a">>,
        <<"t","r","a","n","s","i","t"," ","v","i","s","a">>,
        <<"e","n","t","r","y"," ","p","e","r","m","i","t">>,
        <<"b","o","r","d","e","r">>,
        <<"c","u","s","t","o","m","s">>,
        <<"d","o","c","u","m","e","n","t","a","t","i","o","n">>
      >>],
    [label |-> "eSIM", keywords |-> <<
        <<"e","s","i","m">>,
        <<"e","-","s","i","m">>,
        <<"s","i","m">>,
        <<"d","a","t","a">>,
        <<"r","o","a","m","i","n","g">>,
        <<"n","e","t","w","o","r","k">>,
        <<"c","e","l","l","u","l","a","r">>,
        <<"m","o","b","i","l","e"," ","d","a","t","a">>,
        <<"i","n","t","e","r","n","e","t">>,
        <<"c","o","n","n","e","c","t","i","v","i","t","y">>,
        <<"s","i","g","n","a","l">>,
        <<"c","a","r","r","i","e","r">>,
        <<"d","a","t","a"," ","p","l","a","n">>,
        <<"g","b">>,
        <<"m","b">>,
        <<"u","n","l","i","m","i","t","e","d"," ","d","a","t","a">>,
        <<"c","o","v","e","r","a","g","e">>
      >>],
    [label |-> "Wallet", keywords |-> <<
        <<"w","a","l","l","e","t">>,
        <<"b","a","l","a","n","c","e">>,
        <<"p","a","y","m","e","n","t">>,
        <<"m","o","n","e","y">>,
        <<"f","u","n","d","s">>,
        <<"a","c","c","o","u","n","t">>,
        <<"c","r","e","d","i","t">>,
        <<"d","e","b","i","t">>,
        <<"t","r","a","n","s","a","c","t","i","o","n">>,
        <<"t","r","a","n","s","f","e","r">>,
        <<"d","e","p","o","s","i","t">>,
        <<"w","i","t","h","d","r","a","w","a","l">>,
        <<"r","e","f","u","n","d">>,
        <<"c","h","a","r","g","e">>,
        <<"b","i","l","l","i","n","g">>,
        <<"i","n","v","o","i","c","e">>
      >>]
  >>

category_keywords ==
  <<
    [label |-> "Cancellation", keywords |-> <<
        <<"c","a","n","c","e","l">>,
        <<"c","a","n","c","e","l","l","e","d">>,
        <<"c","a","n","c","e","l","l","a","t","i","o","n">>,
        <<"r","e","f","u","n","d">>,
        <<"a","b","o","r","t">>,
        <<"t","e","r","m","i","n","a","t","e">>,
        <<"s","t","o","p">>,
        <<"e","n","d">>,
        <<"q","u","i","t">>,
        <<"r","e","m","o","v","e">>,
        <<"d","e","l","e","t","e">>,
        <<"v","o","i","d">>,
        <<"a","n","n","u","l">>,
        <<"r","e","v","o","k","e">>,
        <<"w","i","t","h","d","r","a","w"," ","b","o","o","k","i","n","g">>
      >>],
    [label |-> "Modify", keywords |-> <<
        <<"c","h","a","n","g","e">>,
        <<"m","o","d","i","f","y">>,
        <<"m","o","d","i","f","i","c","a","t","i","o","n">>,
        <<"u","p","d","a","t","e">>,
        <<"e","d","i","t">>,
        <<"a","l","t","e","r">>,
        <<"a","d","j","u","s","t">>,
        <<"r","e","s","c","h","e","d","u","l","e">>,
        <<"p","o","s","t","p","o","n","e">>,
        <<"m","o","v","e">>,
        <<"s","h","i","f","t">>,
        <<"d","i","f","f","e","r","e","n","t">>,
        <<"a","n","o","t","h","e","r">>,
        <<"s","w","i","t","c","h">>,
        <<"t","r","a","n","s","f","e","r">>,
        <<"e","x","c","h","a","n","g","e">>
      >>],
    [label |-> "Top Up", keywords |-> <<
        <<"t","o","p"," ","u","p">>,
        <<"t","o","p","u","p">>,
        <<"t","o","p","-","u","p">>,
        <<"r","e","c","h","a","r","g","e">>,
        <<"r","e","l","o","a","d">>,
        <<"a","d","d"," ","m","o","n","e","y">>,
        <<"a","d","d"," ","f","u","n","d","s">>,
        <<"d","e","p","o","s","i","t">>,
        <<"c","r","e","d","i","t">>,
        <<"l","o","a","d">>,
        <<"r","e","f","i","l","l">>,
        <<"i","n","c","r","e","a","s","e"," ","b","a","l","a","n","c","e">>,
        <<"a","d","d"," ","c","r","e","d","i","t">>
      >>],
    [label |-> "Withdraw", keywords |-> <<
        <<"w","i","t","h","d","r","a","w">>,
        <<"w","i","t","h","d","r","a","w","a","l">>,
        <<"c","a","s","h"," ","o","u","t">>,
        <<"t","a","k","e"," ","o","u","t">>,
        <<"r","e","m","o","v","e"," ","f","u","n","d","s">>,
        <<"e","x","t","r","a","c","t">>,
        <<"g","e","t"," ","m","o","n","e","y">>,
        <<"r","e","t","r","i","e","v","e"," ","f","u","n","d","s">>,
        <<"d","e","b","i","t">>,
        <<"t","r","a","n","s","f","e","r"," ","o","u","t">>,
        <<"m","o","v","e"," ","m","o","n","e","y"," ","o","u","t">>
      >>],
    [label |-> "Order Re-Check", keywords |-> <<
        <<"r","e","c","h","e","c","k">>,
        <<"r","e","-","c","h","e","c","k">>,
        <<"r","e","v","i","e","w">>,
        <<"v","e","r","i","f","y">>,
        <<"c","o","n","f","i","r","m">>,
        <<"v","a","l","i","d","a","t","e">>,
        <<"d","o","u","b","l","e"," ","c","h","e","c","k">>,
        <<"e","x","a","m","i","n","e">>,
        <<"i","n","s","p","e","c","t">>,
        <<"a","u","d","i","t">>,
        <<"s","t","a","t","u","s">>,
        <<"c","h","e","c","k"," ","o","r","d","e","r">>,
        <<"o","r","d","e","r"," ","s","t","a","t","u","s">>,
        <<"b","o","o","k","i","n","g"," ","s","t","a","t","u","s">>
      >>],
    [label |-> "Pre-Purchase", keywords |-> <<
        <<"p","r","e","-","p","u","r","c","h","a","s","e">>,
        <<"p","r","e"," ","p","u","r","c","h","a","s","e">>,
        <<"b","e","f","o","r","e"," ","b","u","y","i","n","g">>,
        <<"i","n","q","u","i","r","y">>,
        <<"q","u","e","s","t","i","o","n">>,
        <<"a","s","k">>,
        <<"i","n","f","o","r","m","a","t","i","o","n">>,
        <<"d","e","t","a","i","l","s">>,
        <<"h","e","l","p">>,
        <<"s","u","p","p","o","r","t">>,
        <<"h","o","w"," ","t","o">>,
        <<"c","a","n"," ","i">>,
        <<"i","s"," ","i","t"," ","p","o","s","s","i","b","l","e">>,
        <<"a","v","a","i","l","a","b","i","l","i","t","y">>
      >>]
  >>

fallback_service_words ==
  <<
    [label |-> "Flight", keywords |-> <<<<"f","l","i","g","h","t">>, <<"p","l","a","n","e">>, <<"a","i","r","l","i","n","e">>, <<"b","o","o","k","i","n","g"," ","r","e","f","e","r","e","n","c","e">>>>],
    [label |-> "Hotel", keywords |-> <<<<"h","o","t","e","l">>, <<"r","o","o","m">>, <<"r","e","s","e","r","v","a","t","i","o","n">>, <<"c","h","e","c","k","-","i","n">>>>],
    [label |-> "Visa", keywords |-> <<<<"v","i","s","a">>, <<"p","a","s","s","p","o","r","t">>, <<"e","m","b","a","s","s","y">>>>],
    [label |-> "eSIM", keywords |-> <<<<"e","s","i","m">>, <<"s","i","m">>, <<"d","a","t","a">>, <<"r","o","a","m","i","n","g">>>>],
    [label |-> "Wallet", keywords |-> <<<<"w","a","l","l","e","t">>, <<"b","a","l","a","n","c","e">>, <<"p","a","y","m","e","n","t">>, <<"m","o","n","e","y">>>>]
  >>

fallback_category_words ==
  <<
    [label |-> "Cancellation", keywords |-> <<<<"c","a","n","c","e","l">>, <<"r","e","f","u","n","d">>, <<"t","e","r","m","i","n","a","t","e">>>>],
    [label |-> "Modify", keywords |-> <<<<"c","h","a","n","g","e">>, <<"m","o","d","i","f","y">>, <<"u","p","d","a","t","e">>, <<"r","e","s","c","h","e","d","u","l","e">>>>],
    [label |-> "Top Up", keywords |-> <<<<"t","o","p"," ","u","p">>, <<"r","e","c","h","a","r","g","e">>, <<"a","d","d"," ","m","o","n","e","y">>>>],
    [label |-> "Withdraw", keywords |-> <<<<"w","i","t","h","d","r","a","w">>, <<"c","a","s","h"," ","o","u","t">>, <<"t","a","k","e"," ","o","u","t">>>>],
    [label |-> "Order Re-Check", keywords |-> <<<<"c","h","e","c","k">>, <<"s","t","a","t","u","s">>, <<"v","e","r","i","f","y">>, <<"c","o","n","f","i","r","m">>>>],
    [label |-> "Pre-Purchase", keywords |-> <<<<"h","o","w"," ","t","o">>, <<"c","a","n"," ","i">>, <<"i","n","f","o","r","m","a","t","i","o","n">>, <<"h","e","l","p">>>>]
  >>

service_mapping ==
  <<
    [keyword |-> <<"f","l","i","g","h","t">>, label |-> "Flight"],
    [keyword |-> <<"h","o","t","e","l">>, label |-> "Hotel"],
    [keyword |-> <<"v","i","s","a">>, label |-> "Visa"],
    [keyword |-> <<"e","s","i","m">>, label |-> "eSIM"],
    [keyword |-> <<"e","-","s","i","m">>, label |-> "eSIM"],
    [keyword |-> <<"w","a","l","l","e","t">>, label |-> "Wallet"],
    [keyword |-> <<"o","t","h","e","r">>, label |-> "Other"]
  >>

category_mapping ==
  <<
    [keyword |-> <<"c","a","n","c","e","l","l","a","t","i","o","n">>, label |-> "Cancellation"],
    [keyword |-> <<"c","a","n","c","e","l">>, label |-> "Cancellation"],
    [keyword |-> <<"m","o","d","i","f","y">>, label |-> "Modify"],
    [keyword |-> <<"c","h","a","n","g","e">>, label |-> "Modify"],
    [keyword |-> <<"t","o","p","_","u","p">>, label |-> "Top Up"],
    [keyword |-> <<"t","o","p"," ","u","p">>, label |-> "Top Up"],
    [keyword |-> <<"w","i","t","h","d","r","a","w">>, label |-> "Withdraw"],
    [keyword |-> <<"c","a","s","h"," ","o","u","t">>, label |-> "Withdraw"],
    [keyword |-> <<"o","r","d","e","r","_","r","e","c","h","e","c","k">>, label |-> "Order Re-Check"],
    [keyword |-> <<"o","r","d","e","r"," ","r","e","-","c","h","e","c","k">>, label |-> "Order Re-Check"],
    [keyword |-> <<"c","h","e","c","k">>, label |-> "Order Re-Check"],
    [keyword |-> <<"s","t","a","t","u","s">>, label |-> "Order Re-Check"],
    [keyword |-> <<"p","r","e","_","p","u","r","c","h","a","s","e">>, label |-> "Pre-Purchase"],
    [keyword |-> <<"p","r","e","-","p","u","r","c","h","a","s","e">>, label |-> "Pre-Purchase"],
    [keyword |-> <<"i","n","f","o","r","m","a","t","i","o","n">>, label |-> "Pre-Purchase"],
    [keyword |-> <<"h","e","l","p">>, label |-> "Pre-Purchase"],
    [keyword |-> <<"o","t","h","e","r","s">>, label |-> "Others"],
    [keyword |-> <<"o","t","h","e","r">>, label |-> "Others"]
  >>

----------------------------------------------------------------------------
\* Value objects.

TaggingResult(service_type, category, confidence_score, method_used) ==
  [service_type |-> service_type, category |-> category,
   confidence_score |-> confidence_score, method_used |-> method_used]

is_successful(r) ==
  r.service_type # None \/ r.category # None

result_is_complete(r) ==
  r.service_type # None /\ r.category # None

Tag(service_type, category, confidence, method) ==
  [service_type |-> service_type, category |-> category,
   confidence |-> confidence, method |-> method]

to_tag(r) ==
  Tag(r.service_type, r.category, r.confidence_score, r.method_used)

is_complete(tag) ==
  tag.service_type # None /\ tag.category # None

is_default_tag(tag) ==
  tag.service_type = "Other" /\ tag.category = "Others"

----------------------------------------------------------------------------
\* Layer 1: KeywordTaggingEngine.

\* next((i for i, kw in enumerate(keywords) if kw.lower() in match.lower()), 0)
RECURSIVE keyword_index(_, _, _)
keyword_index(keywords, match, k) ==
  IF k > Len(keywords) THEN 0
  ELSE IF Contains(match, keywords[k]) THEN k - 1
  ELSE keyword_index(keywords, match, k + 1)

RECURSIVE SumIndex(_, _)
SumIndex(keywords, matches) ==
  IF Len(matches) = 0 THEN 0
  ELSE keyword_index(keywords, matches[1], 1) + SumIndex(keywords, Tail(matches))

\* score of one label, in tenths: len(matches) + sum(keyword_index * 0.1);
\* -1 when the label has no match (it gets no entry in scores).
score_of(keywords, matches) ==
  IF Len(matches) = 0 THEN -1
  ELSE 10 * Len(matches) + SumIndex(keywords, matches)

label_score(keywords, text) ==
  score_of(keywords, findall(keywords, text, 1))

\* scores, then max(scores.items(), key=lambda x: x[1]): the rows of the
\* table are scored in order and the first row with the greatest score is
\* kept (row 0, score 0: no row has a match so far).
RECURSIVE best_row(_, _, _, _, _)
\* A variant in which a later row of equal score replaces the best so far.
keep_latest(table, text, k, best, top, score) ==
  IF score >= top THEN best_row(table, text, k + 1, k, score)
  ELSE best_row(table, text, k + 1, best, top)

keep_best(table, text, k, best, top, score) ==
  IF score > top THEN best_row(table, text, k + 1, k, score)
  ELSE best_row(table, text, k + 1, best, top)

best_row(table, text, k, best, top) ==
  IF k > Len(table) THEN [row |-> best, score |-> top]
  ELSE keep_best(table, text, k, best, top, label_score(table[k].keywords, text))

min(a, b) ==
  IF a <= b THEN a ELSE b

max(a, b) ==
  IF a >= b THEN a ELSE b

\* confidence = min(best[1] * 0.3, 1.0), in hundredths
normalize(table, best) ==
  IF best.row = 0 THEN [label |-> None, confidence |-> 0]
  ELSE [label |-> table[best.row].label, confidence |-> min(best.score * 3, 100)]

find_best(table, text) ==
  normalize(table, best_row(table, text, 1, 0, 0))

find_service_type(text) ==
  find_best(service_keywords, text)

find_category(text) ==
  find_best(category_keywords, text)

\* A variant of tag_text's last step without the default branch.
overall_without_default(service, category) ==
  TaggingResult(service.label, category.label,
                max(service.confidence, category.confidence), "keywords")

\* tag_text after both classifiers ran: the default result when neither
\* found a label, else overall_confidence = max(service, category).
overall(service, category) ==
  IF service.label = None /\ category.label = None
  THEN TaggingResult("Other", "Others", 0, "keywords_default")
  ELSE TaggingResult(service.label, category.label,
                     max(service.confidence, category.confidence), "keywords")

tag_text(text) ==
  overall(find_service_type(strip(lower(text))), find_category(strip(lower(text))))
----------------------------------------------------------------------------
\* Layer 2: AgenticTaggingEngine.

create_error_result(reason) ==
  TaggingResult("Other", "Others", 0, "agentic_error")

\* An if / elif chain over the rows of a table: the label of the first row,
\* from the k-th on, one of whose words occurs in the text as a substring.
RECURSIVE first_row(_, _, _)
first_row(table, text, k) ==
  IF k > Len(table) THEN None
  ELSE IF AnyIn(table[k].keywords, text) THEN table[k].label
  ELSE first_row(table, text, k + 1)

\* A variant of the confidence tiers with the middle tier missing.
fallback_confidence_two_tiers(service_type, category) ==
  IF service_type # None /\ category # None THEN 70 ELSE 30

fallback_confidence(service_type, category) ==
  IF service_type # None /\ category # None THEN 70
  ELSE IF service_type # None \/ category # None THEN 50
  ELSE 30

\* The result of _fallback_analysis once service_type and category are
\* resolved (None: no word of any row occurs).
fallback_result(service_type, category) ==
  IF service_type = None /\ category = None
  THEN TaggingResult("Other", "Others",
                     fallback_confidence(service_type, category), "agentic_fallback")
  ELSE TaggingResult(service_type, category,
                     fallback_confidence(service_type, category), "agentic_fallback")

fallback_analysis(combined_text) ==
  fallback_result(first_row(fallback_service_words, lower(combined_text), 1),
                  first_row(fallback_category_words, lower(combined_text), 1))

\* for keyword, label in mapping.items(): if keyword in text: ...; break
RECURSIVE first_mapping(_, _, _, _)
first_mapping(mapping, text, k, default) ==
  IF k > Len(mapping) THEN default
  ELSE IF Contains(text, mapping[k].keyword) THEN mapping[k].label
  ELSE first_mapping(mapping, text, k + 1, default)

Digits ==
  {"0","1","2","3","4","5","6","7","8","9"}

DigitValue(c) ==
  CASE c = "0" -> 0 [] c = "1" -> 1 [] c = "2" -> 2 [] c = "3" -> 3
    [] c = "4" -> 4 [] c = "5" -> 5 [] c = "6" -> 6 [] c = "7" -> 7
    [] c = "8" -> 8 [] c = "9" -> 9

\* The end (exclusive) of the longest run of characters of S starting at i.
RECURSIVE RunEnd(_, _, _)
RunEnd(text, i, S) ==
  IF i <= Len(text) /\ text[i] \in S THEN RunEnd(text, i + 1, S) ELSE i

\* TRUE iff one of the digits text[i..j-1] is not "0".
NonZero(text, i, j) ==
  \E p \in i..(j - 1) : text[p] # "0"

\* min(1.0, max(0.0, float(number))) in hundredths, rounded down, for the
\* number \d*\.?\d+ at position q: integer part text[q..d1-1], fraction
\* text[d1+1..d2-1] when text[d1] is the point and digits follow it.
number_at(text, q) ==
  LET d1       == RunEnd(text, q, Digits)
      hasPoint == d1 <= Len(text) /\ text[d1] = "."
      d2       == IF hasPoint THEN RunEnd(text, d1 + 1, Digits) ELSE d1
      fraction == hasPoint /\ d2 > d1 + 1
      tenths   == IF fraction THEN DigitValue(text[d1 + 1]) ELSE 0
      hundredths == IF fraction /\ d2 > d1 + 2 THEN DigitValue(text[d1 + 2]) ELSE 0
  IN  IF d1 = q /\ ~fraction THEN [found |-> FALSE, value |-> 0]
      ELSE IF NonZero(text, q, d1) THEN [found |-> TRUE, value |-> 100]
      ELSE [found |-> TRUE, value |-> 10 * tenths + hundredths]

confidence_word ==
  <<"c","o","n","f","i","d","e","n","c","e">>

\* re.search(r'confidence[:\s]*(\d*\.?\d+)', text) from position i on; n is
\* the number read after the word "confidence" found at i.
RECURSIVE confidence_search(_, _)
number_or_next(text, i, n) ==
  IF n.found THEN n ELSE confidence_search(text, i + 1)

confidence_search(text, i) ==
  IF i > Len(text) THEN [found |-> FALSE, value |-> 0]
  ELSE IF MatchAt(text, i, confidence_word)
       THEN number_or_next(text, i,
              number_at(text, RunEnd(text, i + Len(confidence_word),
                                     Whitespace \cup {":"})))
       ELSE confidence_search(text, i + 1)

\* A variant whose default confidence is 0.7.
confidence_of_default_seventy(match) ==
  IF match.found THEN match.value ELSE 70

\* confidence = 0.5  # Default confidence
confidence_of(match) ==
  IF match.found THEN match.value ELSE 50

extract_tagging_from_ai_response(response_text) ==
  [service_type |-> first_mapping(service_mapping, lower(response_text), 1, "Other"),
   category     |-> first_mapping(category_mapping, lower(response_text), 1, "Others"),
   confidence   |-> confidence_of(confidence_search(lower(response_text), 1))]

\* What the awaited Runner.run does: it raises (kind "raise"), or it returns
\* a result whose final_output is a text (kind "response") or is not a
\* string at all (kind "malformed").
Raises(outcome) ==
  outcome.kind = "raise"

\* _parse_ai_response: final_output.lower() raises AttributeError when
\* final_output is no string; the handler inside _parse_ai_response turns
\* that into the error result.
ai_result(extracted) ==
  TaggingResult(extracted.service_type, extracted.category, extracted.confidence,
                "ai_agent_analysis")

parse_ai_response(agent_result) ==
  IF agent_result.kind = "malformed"
  THEN create_error_result("parsing_error")
  ELSE ai_result(extract_tagging_from_ai_response(agent_result.final_output))

\* The class body defines _update_metrics twice, so the name is bound to the
\* second definition, (self, agent_type, confidence).  A call that passes
\* nargs arguments raises TypeError unless nargs is 2.
update_metrics_raises(nargs) ==
  nargs # 2

\* except Exception: every failure modelled here is an Exception subclass.
ExceptionClasses ==
  {"ProviderError", "TimeoutError", "TypeError"}

\* A variant of the handler that catches the provider's own error only.
caught_provider_error_only(exception) ==
  exception = "ProviderError"

caught(exception) ==
  exception \in ExceptionClasses

----------------------------------------------------------------------------
\* Bounds of the model and the inputs the handlers are given.

MaxMessages == 3

MaxBatch == 2

MaxErrors == 2

ConfidenceMargin == 60

MergeLevels == 4

Conversations ==
  {"c1"}

UserTexts ==
  { <<>>,
    <<" ">>,
    <<"h","i">>,
    <<"p","l","a","n","e","s">>,
    <<"f","l","i","g","h","t"," ","p","n","r">>,
    <<"C","a","n","c","e","l"," ","F","l","i","g","h","t">>,
    <<"s","e","a","t"," ","a","b","o","r","t">> }

BotTexts ==
  { <<"o","k">> }

MessagePool ==
  [text : UserTexts, sender : {"user"}] \cup [text : BotTexts, sender : {"bot"}]

Batches ==
  UNION {[1..n -> MessagePool] : n \in 1..MaxBatch}

ResponseTexts ==
  { <<"f","l","i","g","h","t"," ","c","a","n","c","e","l"," ",
      "c","o","n","f","i","d","e","n","c","e",":"," ","0",".","9">>,
    <<"u","n","c","l","e","a","r">> }

NoProviderCall ==
  [kind |-> "none", exception |-> "", final_output |-> <<>>]

ProviderOutcomes ==
  [kind : {"raise"}, exception : {"ProviderError", "TimeoutError"}, final_output : {<<>>}]
  \cup [kind : {"response"}, exception : {""}, final_output : ResponseTexts]
  \cup [kind : {"malformed"}, exception : {""}, final_output : {<<>>}]

\* Every combined text a ticket of the model can hold.
CombinedTexts ==
  {join(texts) : texts \in UNION {[1..n -> UserTexts] : n \in 1..MaxMessages}}

\* tag_text and _fallback_analysis over these texts, computed once.
keyword_results ==
  [text \in CombinedTexts |-> tag_text(text)]

fallback_results ==
  [text \in {strip(t) : t \in CombinedTexts} |-> fallback_analysis(text)]

\* A variant of tag_conversation that answers every non-empty input with
\* the local fallback analysis.
tag_conversation_falling_back(messages, available, outcome) ==
  IF strip(join(messages)) = <<>>
  THEN [result |-> create_error_result("empty_input"),
        propagated |-> "", errors |-> 0, path |-> "empty_input"]
  ELSE [result |-> fallback_results[strip(join(messages))],
        propagated |-> "", errors |-> 0, path |-> "fallback"]

\* tag_conversation(messages): the returned result, the exception that
\* leaves the call ("" when none does), the increment of error_count and
\* the path taken.
tag_conversation(messages, available, outcome) ==
  LET combined_text == strip(join(messages))
      error  == [result |-> create_error_result("analysis_error"),
                 propagated |-> "", errors |-> 1, path |-> "error"]
      raised == IF Raises(outcome) THEN outcome.exception
                ELSE IF update_metrics_raises(1) THEN "TypeError"
                ELSE ""
  IN  IF combined_text = <<>>
      THEN [result |-> create_error_result("empty_input"),
            propagated |-> "", errors |-> 0, path |-> "empty_input"]
      ELSE IF ~available
      THEN [result |-> fallback_results[combined_text],
            propagated |-> "", errors |-> 0, path |-> "fallback"]
      ELSE IF raised # ""
      THEN IF caught(raised) THEN error
           ELSE [result |-> create_error_result("analysis_error"),
                 propagated |-> raised, errors |-> 0, path |-> "propagated"]
      ELSE [result |-> parse_ai_response(outcome),
            propagated |-> "", errors |-> 0, path |-> "provider"]

----------------------------------------------------------------------------
\* TaggingService.

create_default_result(reason) ==
  TaggingResult("Other", "Others", 0, "default")

is_user_message(message) ==
  message.sender = "user"

get_user_messages(messages) ==
  SelectSeq(messages, is_user_message)

texts_of(messages) ==
  [i \in 1..Len(messages) |-> messages[i].text]

get_combined_text(messages) ==
  join(texts_of(get_user_messages(messages)))

\* A variant that accepts the keyword result from a confidence of 0.5.
accept_keyword_from_half(keyword_result) ==
  is_successful(keyword_result) /\ keyword_result.confidence_score >= 50

\* if keyword_result.is_successful and keyword_result.confidence_score >= 0.7
accept_keyword(keyword_result) ==
  is_successful(keyword_result) /\ keyword_result.confidence_score >= 70

\* A variant of the escalation rule that wants both conditions.
should_escalate_both(n_user_messages, keyword_result) ==
  n_user_messages > 1 /\ keyword_result.confidence_score < 50

\* if len(user_messages) > 1 or keyword_result.confidence_score < 0.5
should_escalate(n_user_messages, keyword_result) ==
  n_user_messages > 1 \/ keyword_result.confidence_score < 50

\* if agentic_result.confidence_score > keyword_result.confidence_score
\*    or agentic_result.is_complete
prefer_agentic(agentic_result, keyword_result) ==
  \/ agentic_result.confidence_score > keyword_result.confidence_score
  \/ result_is_complete(agentic_result)

NotInvoked ==
  TaggingResult(None, None, 0, "not_invoked")

NoTagging ==
  [result |-> NotInvoked, layer1 |-> FALSE, keyword_result |-> NotInvoked,
   layer2 |-> FALSE, agentic_result |-> NotInvoked, path |-> "",
   propagated |-> "", errors |-> 0]

\* tag_ticket once the Layer 1 result is known; agentic is what
\* tag_conversation gives if it is awaited.  The returned result together
\* with what was computed on the way (the Layer 1 result, whether Layer 2
\* ran and what it gave).
two_layers(n_user_messages, keyword_result, agentic) ==
  IF accept_keyword(keyword_result)
  THEN [NoTagging EXCEPT !.result = keyword_result, !.layer1 = TRUE,
                         !.keyword_result = keyword_result]
  ELSE IF should_escalate(n_user_messages, keyword_result)
  THEN [NoTagging EXCEPT !.result = IF prefer_agentic(agentic.result, keyword_result)
                                    THEN agentic.result ELSE keyword_result,
                         !.layer1 = TRUE, !.keyword_result = keyword_result,
                         !.layer2 = TRUE, !.agentic_result = agentic.result,
                         !.path = agentic.path, !.propagated = agentic.propagated,
                         !.errors = agentic.errors]
  ELSE [NoTagging EXCEPT !.result = keyword_result, !.layer1 = TRUE,
                         !.keyword_result = keyword_result]

\* tag_ticket(ticket)
tag_ticket(messages, available, outcome) ==
  IF Len(get_user_messages(messages)) = 0
  THEN [NoTagging EXCEPT !.result = create_default_result("no_user_messages")]
  ELSE two_layers(Len(get_user_messages(messages)),
                  keyword_results[get_combined_text(messages)],
                  tag_conversation(texts_of(get_user_messages(messages)),
                                   available, outcome))

\* A variant that looks at the user messages only, whatever the status.
should_process_whatever_status(ticket) ==
  Len(get_user_messages(ticket.messages)) > 0

\* Ticket.should_process_for_tagging
should_process_for_tagging(ticket) ==
  ticket.status = "open" /\ Len(get_user_messages(ticket.messages)) > 0

\* Variants of should_update: without the default-tag disjunct, with a
\* non-strict comparison, and with the success test alone.
should_update_ignoring_default(current_tag, new_result) ==
  /\ is_successful(new_result)
  /\ \/ ~is_complete(current_tag)
     \/ new_result.confidence_score > current_tag.confidence

should_update_on_equal(current_tag, new_result) ==
  /\ is_successful(new_result)
  /\ \/ ~is_complete(current_tag)
     \/ new_result.confidence_score >= current_tag.confidence
     \/ is_default_tag(current_tag)

should_update_if_successful(current_tag, new_result) ==
  is_successful(new_result)

\* should_update of update_ticket_tags
should_update(current_tag, new_result) ==
  /\ is_successful(new_result)
  /\ \/ ~is_complete(current_tag)
     \/ new_result.confidence_score > current_tag.confidence
     \/ is_default_tag(current_tag)

----------------------------------------------------------------------------
\* The state: the module global OPENAI_AVAILABLE, the tickets table (keyed
\* by conversation id), the engine's metrics, a record of what the last
\* handler did, the add_message_to_ticket coroutines in flight, and what the
\* last pure call that was looked at returned.

VARIABLES OPENAI_AVAILABLE, db, metrics, last, constructed, tasks, report

vars == <<OPENAI_AVAILABLE, db, metrics, last, constructed, tasks, report>>

\* Tag(): the default_factory of Ticket.current_tag
EmptyTag ==
  Tag(None, None, 0, "")

NoLast ==
  [op |-> "", conversation |-> "", n_user_messages |-> 0, combined_text |-> <<>>,
   before |-> EmptyTag, tagged |-> FALSE, outcome |-> NoProviderCall,
   tagging |-> NoTagging,
   updated |-> FALSE, saved |-> FALSE, after |-> EmptyTag]

NotConstructed ==
  [type |-> "", confidence |-> 0, raised |-> ""]

\* The coroutines add_message_to_ticket can have in flight at once.
TaskIds ==
  {"t1", "t2"}

\* A coroutine that has not started or has returned; ticket is its own copy
\* of the ticket, loaded the tag that copy had when it was read.
IdleTask ==
  [pc |-> "idle", conversation |-> "", loaded |-> EmptyTag,
   ticket |-> [messages |-> <<>>, current_tag |-> EmptyTag, status |-> "open"],
   result |-> NotInvoked]

NoTasks ==
  [t \in TaskIds |-> IdleTask]

NoReport ==
  [op |-> "", ticket |-> [messages |-> <<>>, current_tag |-> EmptyTag, status |-> "open"],
   is_corner_case |-> FALSE, dashboard_is_corner_case |-> FALSE,
   corner_case_type |-> "", issues |-> <<>>,
   response_text |-> <<>>, extracted |-> NotInvoked]

Init ==
  /\ OPENAI_AVAILABLE \in BOOLEAN
  /\ db = <<>>
  /\ metrics = [total_taggings |-> 0, successful_taggings |-> 0, error_count |-> 0]
  /\ last = NoLast
  /\ constructed = NotConstructed
  /\ tasks = NoTasks
  /\ report = NoReport

----------------------------------------------------------------------------
\* TicketService: one action per handler.

Ticket(messages, current_tag, status) ==
  [messages |-> messages, current_tag |-> current_tag, status |-> status]

add_errors(m, n) ==
  [m EXCEPT !.error_count = @ + n]

\* create_ticket(conversation_id, initial_messages), reached from
\* ProcessMessageUseCase.execute when the conversation has no ticket yet.
create_ticket(conversation_id, initial_messages, outcome) ==
  /\ conversation_id \notin DOMAIN db
  /\ \E tagging \in {tag_ticket(initial_messages, OPENAI_AVAILABLE, outcome)} :
      LET ticket == Ticket(initial_messages, to_tag(tagging.result), "open")
          failed == tagging.propagated # ""
      IN
      /\ TRUE
      /\ metrics.error_count + tagging.errors <= MaxErrors
      /\ db' = IF failed THEN db ELSE (conversation_id :> ticket) @@ db
      /\ metrics' = add_errors(metrics, tagging.errors)
      /\ last' = [NoLast EXCEPT !.op = "create_ticket",
                                !.conversation = conversation_id,
                                !.n_user_messages = Len(get_user_messages(initial_messages)),
                                !.combined_text = get_combined_text(initial_messages),
                                !.tagged = TRUE, !.tagging = tagging,
                                !.outcome = IF tagging.layer2 THEN outcome ELSE NoProviderCall,
                                !.updated = ~failed, !.saved = ~failed,
                                !.after = IF failed THEN EmptyTag ELSE ticket.current_tag]
  /\ UNCHANGED <<OPENAI_AVAILABLE, constructed, tasks, report>>

\* add_message_to_ticket(conversation_id, message) with the
\* update_ticket_tags it calls and the save that follows an update.
add_message_to_ticket(conversation_id, message, outcome) ==
  /\ conversation_id \in DOMAIN db
  /\ Len(db[conversation_id].messages) < MaxMessages
  /\ \E tagging \in
        {IF should_process_for_tagging(
              [db[conversation_id] EXCEPT !.messages = Append(@, message)])
         THEN tag_ticket(Append(db[conversation_id].messages, message),
                         OPENAI_AVAILABLE, outcome)
         ELSE NoTagging} :
     LET loaded   == db[conversation_id]
         messages == Append(loaded.messages, message)
         process  == should_process_for_tagging([loaded EXCEPT !.messages = messages])
         failed   == tagging.propagated # ""
         updated  == process /\ ~failed /\ should_update(loaded.current_tag, tagging.result)
         ticket   == Ticket(messages,
                            IF updated THEN to_tag(tagging.result) ELSE loaded.current_tag,
                            loaded.status)
     IN  /\ metrics.error_count + tagging.errors <= MaxErrors
         /\ db' = IF updated THEN [db EXCEPT ![conversation_id] = ticket] ELSE db
         /\ metrics' = add_errors(metrics, tagging.errors)
         /\ last' = [NoLast EXCEPT !.op = "add_message_to_ticket",
                                   !.conversation = conversation_id,
                                   !.n_user_messages = Len(get_user_messages(messages)),
                                   !.combined_text = get_combined_text(messages),
                                   !.before = loaded.current_tag,
                                   !.tagged = process, !.tagging = tagging,
                                   !.outcome = IF tagging.layer2 THEN outcome ELSE NoProviderCall,
                                   !.updated = updated, !.saved = updated,
                                   !.after = ticket.current_tag]
  /\ UNCHANGED <<OPENAI_AVAILABLE, constructed, tasks, report>>

\* update_ticket_status(ticket_id, status)
update_ticket_status(conversation_id, status) ==
  /\ conversation_id \in DOMAIN db
  /\ db' = [db EXCEPT ![conversation_id].status = status]
  /\ last' = [NoLast EXCEPT !.op = "update_ticket_status",
                            !.conversation = conversation_id,
                            !.before = db[conversation_id].current_tag,
                            !.saved = TRUE,
                            !.after = db[conversation_id].current_tag]
  /\ UNCHANGED <<OPENAI_AVAILABLE, metrics, constructed, tasks, report>>

\* Runner.run is awaited only when OPENAI_AVAILABLE.
OutcomesNow ==
  IF OPENAI_AVAILABLE THEN ProviderOutcomes ELSE {NoProviderCall}

Next ==
  \/ \E c \in Conversations, b \in Batches, o \in OutcomesNow :
       create_ticket(c, b, o)
  \/ \E c \in Conversations, m \in MessagePool, o \in OutcomesNow :
       add_message_to_ticket(c, m, o)
  \/ \E c \in Conversations, s \in {"open", "closed", "pending"} :
       update_ticket_status(c, s)

Spec ==
  Init /\ [][Next]_vars

----------------------------------------------------------------------------
\* Construction of the value objects, on confidences inside and outside
\* [0, 1].

ConfidenceInputs ==
  (0 - ConfidenceMargin)..(100 + ConfidenceMargin)

\* TaggingResult.__post_init__
post_init(confidence_score) ==
  IF 0 <= confidence_score /\ confidence_score <= 100 THEN "" ELSE "ValueError"

\* Tag is a plain dataclass: its generated __init__ stores the fields.
tag_init(confidence) ==
  ""

construct_tagging_result(confidence_score) ==
  /\ constructed' = [type |-> "TaggingResult", confidence |-> confidence_score,
                     raised |-> post_init(confidence_score)]
  /\ UNCHANGED <<OPENAI_AVAILABLE, db, metrics, last, tasks, report>>

construct_tag(confidence) ==
  /\ constructed' = [type |-> "Tag", confidence |-> confidence,
                     raised |-> tag_init(confidence)]
  /\ UNCHANGED <<OPENAI_AVAILABLE, db, metrics, last, tasks, report>>

NextConstruct ==
  \/ \E c \in ConfidenceInputs : construct_tagging_result(c)
  \/ \E c \in ConfidenceInputs : construct_tag(c)

SpecConstruct ==
  Init /\ [][NextConstruct]_vars

----------------------------------------------------------------------------
\* update_ticket_tags on its own: the tag of the ticket it is handed and the
\* result tag_ticket returns for it are inputs, over every combination of
\* set and unset axes and a grid of confidences.

MergeConfidences ==
  {(100 * k) \div MergeLevels : k \in 0..MergeLevels}

TagInputs ==
  {Tag(s, c, x, "keywords") :
     s \in {None, "Flight", "Other"}, c \in {None, "Cancellation", "Others"},
     x \in MergeConfidences}

ResultInputs ==
  {TaggingResult(s, c, x, "agentic_fallback") :
     s \in {None, "Flight", "Other"}, c \in {None, "Cancellation", "Others"},
     x \in MergeConfidences}

TicketInputs ==
  {Ticket(m, t, s) :
     m \in {<<>>, <<[text |-> <<"h","i">>, sender |-> "user"]>>},
     t \in TagInputs, s \in {"open", "closed"}}

\* A ticket with any of these tags is held by the caller.
InitMerge ==
  /\ OPENAI_AVAILABLE \in BOOLEAN
  /\ db \in {c :> ticket : c \in Conversations, ticket \in TicketInputs}
  /\ metrics = [total_taggings |-> 0, successful_taggings |-> 0, error_count |-> 0]
  /\ last = NoLast
  /\ constructed = NotConstructed
  /\ tasks = NoTasks
  /\ report = NoReport

\* update_ticket_tags(ticket) for the ticket held under conversation_id,
\* new_result being what tag_ticket returns; update_tag changes the ticket
\* in place.
update_ticket_tags(conversation_id, new_result) ==
  LET ticket  == db[conversation_id]
      process == should_process_for_tagging(ticket)
      updated == process /\ should_update(ticket.current_tag, new_result)
      new_tag == IF updated THEN to_tag(new_result) ELSE ticket.current_tag
  IN  /\ db' = [db EXCEPT ![conversation_id].current_tag = new_tag]
      /\ last' = [NoLast EXCEPT !.op = "update_ticket_tags",
                                !.conversation = conversation_id,
                                !.n_user_messages = Len(get_user_messages(ticket.messages)),
                                !.before = ticket.current_tag,
                                !.tagged = process,
                                !.tagging = IF process
                                            THEN [NoTagging EXCEPT !.result = new_result]
                                            ELSE NoTagging,
                                !.updated = updated,
                                !.after = new_tag]
      /\ UNCHANGED <<OPENAI_AVAILABLE, metrics, constructed, tasks, report>>

NextMerge ==
  \E c \in DOMAIN db, new_result \in ResultInputs :
    update_ticket_tags(c, new_result)

SpecMerge ==
  InitMerge /\ [][NextMerge]_vars


----------------------------------------------------------------------------
\* add_message_to_ticket as the event loop runs it: the coroutine gives up
\* control at its awaits (the read of the ticket, Runner.run, the save), and
\* another coroutine of the same handler can run in between.  No lock is
\* taken and no row version is compared anywhere on the way.

TaskTexts ==
  { <<"h","i">>,
    <<"f","l","i","g","h","t"," ","p","n","r">>,
    <<"C","a","n","c","e","l"," ","F","l","i","g","h","t">> }

TaskMessages ==
  [text : TaskTexts, sender : {"user"}] \cup [text : BotTexts, sender : {"bot"}]

\* tag_conversation reaches "await Runner.run(...)" for this ticket.
awaits_provider(messages, available) ==
  \E tagging \in {tag_ticket(messages, available, NoProviderCall)} :
    available /\ tagging.layer2 /\ tagging.path # "empty_input"

\* update_ticket_tags from the return of tag_ticket on: the decision, and
\* update_tag on the coroutine's own copy of the ticket.  An exception that
\* leaves tag_ticket ends the coroutine.
decided(task, tagging) ==
  IF tagging.propagated = "" /\ should_update(task.ticket.current_tag, tagging.result)
  THEN [task EXCEPT !.pc = "saving", !.result = tagging.result,
                    !.ticket = [@ EXCEPT !.current_tag = to_tag(tagging.result)]]
  ELSE IdleTask

\* ticket = await self.repository.get_by_conversation_id(conversation_id)
\* and ticket.add_message(message)
get_by_conversation_id(t, conversation_id, message) ==
  /\ tasks[t].pc = "idle"
  /\ conversation_id \in DOMAIN db
  /\ Len(db[conversation_id].messages) < MaxMessages
  /\ tasks' = [tasks EXCEPT ![t] =
                 [IdleTask EXCEPT !.pc = "loaded",
                                  !.conversation = conversation_id,
                                  !.loaded = db[conversation_id].current_tag,
                                  !.ticket = [db[conversation_id] EXCEPT
                                                !.messages = Append(@, message)]]]
  /\ UNCHANGED <<OPENAI_AVAILABLE, db, metrics, last, constructed, report>>

\* updated = await self.tagging_service.update_ticket_tags(ticket), as far
\* as it runs without giving up control: to its return, or to the await of
\* Runner.run.
begin_update_ticket_tags(t) ==
  /\ tasks[t].pc = "loaded"
  /\ tasks' = [tasks EXCEPT ![t] =
                 IF ~should_process_for_tagging(tasks[t].ticket)
                 THEN IdleTask
                 ELSE IF awaits_provider(tasks[t].ticket.messages, OPENAI_AVAILABLE)
                 THEN [tasks[t] EXCEPT !.pc = "awaiting"]
                 ELSE decided(tasks[t], tag_ticket(tasks[t].ticket.messages,
                                                   OPENAI_AVAILABLE, NoProviderCall))]
  /\ UNCHANGED <<OPENAI_AVAILABLE, db, metrics, last, constructed, report>>

\* Runner.run returns or raises: the rest of tag_conversation, tag_ticket
\* and update_ticket_tags.  This is the provider's step, not the program's.
runner_returns(t, outcome) ==
  /\ tasks[t].pc = "awaiting"
  /\ \E tagging \in {tag_ticket(tasks[t].ticket.messages, OPENAI_AVAILABLE, outcome)} :
       /\ metrics.error_count + tagging.errors <= MaxErrors
       /\ metrics' = add_errors(metrics, tagging.errors)
       /\ tasks' = [tasks EXCEPT ![t] = decided(tasks[t], tagging)]
  /\ UNCHANGED <<OPENAI_AVAILABLE, db, last, constructed, report>>

\* await self.repository.save(ticket): the row of the ticket and its
\* messages are replaced by the coroutine's copy.
save(t) ==
  /\ tasks[t].pc = "saving"
  /\ db' = [db EXCEPT ![tasks[t].conversation] = tasks[t].ticket]
  /\ last' = [NoLast EXCEPT !.op = "save",
                            !.conversation = tasks[t].conversation,
                            !.n_user_messages = Len(get_user_messages(tasks[t].ticket.messages)),
                            !.combined_text = get_combined_text(tasks[t].ticket.messages),
                            !.before = db[tasks[t].conversation].current_tag,
                            !.tagged = TRUE,
                            !.tagging = [NoTagging EXCEPT !.result = tasks[t].result],
                            !.updated = TRUE, !.saved = TRUE,
                            !.after = tasks[t].ticket.current_tag]
  /\ tasks' = [tasks EXCEPT ![t] = IdleTask]
  /\ UNCHANGED <<OPENAI_AVAILABLE, metrics, constructed, report>>

NextTasks ==
  \/ \E c \in Conversations, m \in TaskMessages, o \in OutcomesNow :
       create_ticket(c, <<m>>, o)
  \/ \E t \in TaskIds, c \in Conversations, m \in TaskMessages :
       get_by_conversation_id(t, c, m)
  \/ \E t \in TaskIds : begin_update_ticket_tags(t)
  \/ \E t \in TaskIds, o \in ProviderOutcomes : runner_returns(t, o)
  \/ \E t \in TaskIds : save(t)

\* The event loop resumes every coroutine that is ready to run; nothing
\* makes the provider answer.
SpecTasks ==
  /\ Init
  /\ [][NextTasks]_vars
  /\ \A t \in TaskIds : WF_vars(begin_update_ticket_tags(t)) /\ WF_vars(save(t))

----------------------------------------------------------------------------
\* Corner-case detection: the predicate of TicketService and the three
\* helpers of the dashboard, looked at on tickets of every shape.

\* The largest number of user messages of a ticket looked at.
MaxUserMessages == 11

user_message_count(ticket) ==
  Len(get_user_messages(ticket.messages))

trimmed_length(ticket) ==
  Len(strip(get_combined_text(ticket.messages)))

\* if not ticket.current_tag.service_type or not ticket.current_tag.category
missing_classification(tag) ==
  tag.service_type = None \/ tag.category = None

\* A variant that already counts 10 user messages as a long conversation.
is_corner_case_ticket_from_ten(ticket) ==
  IF ticket.current_tag.confidence < 50 THEN TRUE
  ELSE IF is_default_tag(ticket.current_tag) THEN TRUE
  ELSE IF missing_classification(ticket.current_tag) THEN TRUE
  ELSE IF user_message_count(ticket) = 0 \/ user_message_count(ticket) >= 10 THEN TRUE
  ELSE IF trimmed_length(ticket) < 10 THEN TRUE
  ELSE FALSE

\* TicketService._is_corner_case_ticket
is_corner_case_ticket(ticket) ==
  IF ticket.current_tag.confidence < 50 THEN TRUE
  ELSE IF is_default_tag(ticket.current_tag) THEN TRUE
  ELSE IF missing_classification(ticket.current_tag) THEN TRUE
  ELSE IF user_message_count(ticket) = 0 \/ user_message_count(ticket) > 10 THEN TRUE
  ELSE IF trimmed_length(ticket) < 10 THEN TRUE
  ELSE FALSE

\* dashboard._is_corner_case_ticket
dashboard_is_corner_case_ticket(ticket) ==
  IF ticket.current_tag.confidence < 50 THEN TRUE
  ELSE IF is_default_tag(ticket.current_tag) THEN TRUE
  ELSE IF missing_classification(ticket.current_tag) THEN TRUE
  ELSE IF user_message_count(ticket) = 0 \/ user_message_count(ticket) > 10 THEN TRUE
  ELSE IF trimmed_length(ticket) < 10 THEN TRUE
  ELSE FALSE

\* dashboard._get_corner_case_type: an if/elif chain, one code returned.
get_corner_case_type(ticket) ==
  IF ticket.current_tag.confidence < 50 THEN "low_confidence"
  ELSE IF is_default_tag(ticket.current_tag) THEN "default_fallback"
  ELSE IF missing_classification(ticket.current_tag) THEN "missing_classification"
  ELSE IF user_message_count(ticket) = 0 THEN "no_user_messages"
  ELSE IF user_message_count(ticket) > 10 THEN "long_conversation"
  ELSE IF trimmed_length(ticket) < 10 THEN "short_message"
  ELSE "other"

\* issues.append(label) under "if condition:"
append_if(issues, condition, label) ==
  IF condition THEN Append(issues, label) ELSE issues

\* dashboard._get_ticket_issues: independent ifs, a list of labels.
get_ticket_issues(ticket) ==
  append_if(
   append_if(
    append_if(
     append_if(
      append_if(
       append_if(
        append_if(<<>>, ticket.current_tag.confidence < 50, "Low confidence"),
        is_default_tag(ticket.current_tag), "Default fallback"),
       ticket.current_tag.service_type = None, "Missing service type"),
      ticket.current_tag.category = None, "Missing category"),
     user_message_count(ticket) = 0, "No user messages"),
    user_message_count(ticket) > 10, "Very long conversation"),
   trimmed_length(ticket) < 10, "Very short message")

CornerConfidences ==
  {0, 49, 50, 100}

CornerTexts ==
  { <<>>,
    <<" ", "h", "i", " ">>,
    <<"s","e","a","t"," ","g","o","n","e">>,
    <<"f","l","i","g","h","t"," ","p","n","r">> }

\* n user messages of one text, behind one bot message or none.
CornerMessageLists ==
  {bot \o [i \in 1..n |-> [text |-> text, sender |-> "user"]] :
     bot \in {<<>>, <<[text |-> <<"o","k">>, sender |-> "bot"]>>},
     n \in (0..2) \cup {MaxUserMessages - 2, MaxUserMessages - 1, MaxUserMessages},
     text \in CornerTexts}

CornerTickets ==
  {Ticket(m, Tag(s, c, x, "keywords"), "open") :
     m \in CornerMessageLists,
     s \in {None, "Flight", "Other"}, c \in {None, "Cancellation", "Others"},
     x \in CornerConfidences}

InitCorner ==
  /\ OPENAI_AVAILABLE \in BOOLEAN
  /\ db \in {c :> ticket : c \in Conversations, ticket \in CornerTickets}
  /\ metrics = [total_taggings |-> 0, successful_taggings |-> 0, error_count |-> 0]
  /\ last = NoLast
  /\ constructed = NotConstructed
  /\ tasks = NoTasks
  /\ report = NoReport

\* The record the dashboard builds for a ticket, with the predicate of the
\* ticket service beside it.
corner_case_report(conversation_id) ==
  /\ report' = [NoReport EXCEPT
                  !.op = "corner_case",
                  !.ticket = db[conversation_id],
                  !.is_corner_case = is_corner_case_ticket(db[conversation_id]),
                  !.dashboard_is_corner_case =
                      dashboard_is_corner_case_ticket(db[conversation_id]),
                  !.corner_case_type = get_corner_case_type(db[conversation_id]),
                  !.issues = get_ticket_issues(db[conversation_id])]
  /\ UNCHANGED <<OPENAI_AVAILABLE, db, metrics, last, constructed, tasks>>

NextCorner ==
  \E c \in DOMAIN db : corner_case_report(c)

SpecCorner ==
  InitCorner /\ [][NextCorner]_vars

----------------------------------------------------------------------------
\* _parse_ai_response on its own: responses put together from a lead-in, a
\* way of announcing the confidence and a way of writing the number.

ResponsePrefixes ==
  { <<>>,
    <<"f","l","i","g","h","t"," ","c","a","n","c","e","l"," ">>,
    <<"U","n","c","l","e","a","r","."," ">> }

ResponseTokens ==
  { <<>>,
    <<"s","c","o","r","e",":"," ">>,
    <<"c","o","n","f","i","d","e","n","c","e">>,
    <<"c","o","n","f","i","d","e","n","c","e",":">>,
    <<"c","o","n","f","i","d","e","n","c","e",":"," ">>,
    <<"c","o","n","f","i","d","e","n","c","e"," ","i","s"," ">> }

ResponseNumbers ==
  { <<>>,
    <<"h","i","g","h">>,
    <<"0">>,
    <<"0",".","9">>,
    <<".","2","5">>,
    <<"1",".","5">>,
    <<"7">>,
    <<"-","0",".","5">> }

ResponseInputs ==
  {p \o t \o n : p \in ResponsePrefixes, t \in ResponseTokens, n \in ResponseNumbers}

InitParse ==
  /\ OPENAI_AVAILABLE = TRUE
  /\ db = <<>>
  /\ metrics = [total_taggings |-> 0, successful_taggings |-> 0, error_count |-> 0]
  /\ last = NoLast
  /\ constructed = NotConstructed
  /\ tasks = NoTasks
  /\ report = NoReport

\* tagging_result = await self._parse_ai_response(result, combined_text)
parse_response(agent_result) ==
  /\ report' = [NoReport EXCEPT !.op = "parse_ai_response",
                                !.response_text = agent_result.final_output,
                                !.extracted = parse_ai_response(agent_result)]
  /\ UNCHANGED <<OPENAI_AVAILABLE, db, metrics, last, constructed, tasks>>

NextParse ==
  \E text \in ResponseInputs :
    parse_response([kind |-> "response", exception |-> "", final_output |-> text])

SpecParse ==
  InitParse /\ [][NextParse]_vars

----------------------------------------------------------------------------
\* The statistics and the listing TicketRepository computes over the tickets
\* table.  The rows are tickets as create_ticket stores them, with the
\* created_at and updated_at columns.

MaxLimit == 2

StatConversations ==
  {"c1", "c2"}

\* The tags create_ticket can give a ticket, in either mode of the provider.
StatTags ==
  {to_tag(tag_ticket(b, a, o).result) :
     b \in Batches, a \in BOOLEAN, o \in ProviderOutcomes}

\* c1 is created first; either ticket may have been saved again later (a tag
\* update or a status change sets updated_at).
StatTimes ==
  [c1 : {[created_at |-> 1, updated_at |-> u] : u \in {1, 3}},
   c2 : {[created_at |-> 2, updated_at |-> u] : u \in {2, 3}}]

TicketModel(current_tag, times) ==
  [messages |-> <<>>, current_tag |-> current_tag, status |-> "open",
   created_at |-> times.created_at, updated_at |-> times.updated_at]

InitStats ==
  /\ OPENAI_AVAILABLE \in BOOLEAN
  /\ db \in {[c \in StatConversations |-> TicketModel(tags[c], times[c])] :
               tags \in [StatConversations -> StatTags], times \in StatTimes}
  /\ metrics = [total_taggings |-> 0, successful_taggings |-> 0, error_count |-> 0]
  /\ last = NoLast
  /\ constructed = NotConstructed
  /\ tasks = NoTasks
  /\ report = NoReport

\* select(func.count(TicketModel.ticket_id)).where(...): the rows of the
\* table for which the condition holds.  A comparison with NULL is not true.
low_confidence(row) ==
  row.current_tag.confidence < 50

default_fallback(row) ==
  row.current_tag.service_type = "Other" /\ row.current_tag.category = "Others"

missing_service(row) ==
  row.current_tag.service_type = None

missing_category(row) ==
  row.current_tag.category = None

\* TicketModel.confidence.between(low, high): low <= confidence <= high
between(x, low, high) ==
  low <= x /\ x <= high

confidence_ranges(table) ==
  [very_low |-> Cardinality({c \in DOMAIN table : table[c].current_tag.confidence < 30}),
   low      |-> Cardinality({c \in DOMAIN table :
                               between(table[c].current_tag.confidence, 30, 50)}),
   medium   |-> Cardinality({c \in DOMAIN table :
                               between(table[c].current_tag.confidence, 50, 70)}),
   high     |-> Cardinality({c \in DOMAIN table : table[c].current_tag.confidence >= 70})]

\* A variant of the critical count that leaves the missing categories out.
critical_without_category(low_confidence_count, missing_service_count, missing_category_count) ==
  low_confidence_count + missing_service_count

\* "critical": low_confidence_count + missing_service_count + missing_category_count
critical(low_confidence_count, missing_service_count, missing_category_count) ==
  low_confidence_count + missing_service_count + missing_category_count

corner_case_stats(table) ==
  [total_tickets |-> Cardinality(DOMAIN table),
   confidence_distribution |-> confidence_ranges(table),
   critical |-> critical(Cardinality({c \in DOMAIN table : low_confidence(table[c])}),
                         Cardinality({c \in DOMAIN table : missing_service(table[c])}),
                         Cardinality({c \in DOMAIN table : missing_category(table[c])})),
   warning  |-> Cardinality({c \in DOMAIN table : default_fallback(table[c])}),
   info     |-> confidence_ranges(table).medium]

\* get_corner_case_stats()
get_corner_case_stats ==
  /\ report' = [op |-> "get_corner_case_stats", stats |-> corner_case_stats(db)]
  /\ UNCHANGED <<OPENAI_AVAILABLE, db, metrics, last, constructed, tasks>>

\* case((service_type IS NULL, 1), (category IS NULL, 1),
\*      ((service_type = "Other") & (category = "Others"), 1), else_=0)
severity_case(row) ==
  IF missing_service(row) THEN 1
  ELSE IF missing_category(row) THEN 1
  ELSE IF default_fallback(row) THEN 1
  ELSE 0

\* ORDER BY confidence ASC, case(...) DESC, created_at DESC: row a may stand
\* before row b.
order_by(a, b) ==
  \/ a.current_tag.confidence < b.current_tag.confidence
  \/ /\ a.current_tag.confidence = b.current_tag.confidence
     /\ \/ severity_case(a) > severity_case(b)
        \/ /\ severity_case(a) = severity_case(b)
           /\ a.created_at >= b.created_at

\* The orders in which the statement can return the rows of the table: the
\* database is free where all three keys are equal.
ordered_listings(table) ==
  {listing \in [1..Cardinality(DOMAIN table) -> DOMAIN table] :
     /\ \A i, j \in DOMAIN listing : i # j => listing[i] # listing[j]
     /\ \A i, j \in DOMAIN listing :
          i < j => order_by(table[listing[i]], table[listing[j]])}

\* get_problematic_tickets(limit)
get_problematic_tickets(limit) ==
  /\ \E listing \in ordered_listings(db) :
       report' = [op |-> "get_problematic_tickets", limit |-> limit,
                  listing |-> SubSeq(listing, 1, min(limit, Len(listing)))]
  /\ UNCHANGED <<OPENAI_AVAILABLE, db, metrics, last, constructed, tasks>>

NextStats ==
  \/ get_corner_case_stats
  \/ \E limit \in 1..MaxLimit : get_problematic_tickets(limit)

SpecStats ==
  InitStats /\ [][NextStats]_vars

----------------------------------------------------------------------------
\* tag_text on its own, with the scores dictionaries of _find_service_type
\* and _find_category: texts of one or two words.

KeywordWords ==
  { <<"f","l","i","g","h","t">>,
    <<"f","l","i","g","h","t","s">>,
    <<"h","o","t","e","l">>,
    <<"r","o","o","m","s">>,
    <<"p","n","r">>,
    <<"c","a","n","c","e","l">>,
    <<"c","a","n","c","e","l","l","e","d">>,
    <<"r","e","f","u","n","d">>,
    <<"t","r","a","n","s","f","e","r">>,
    <<"s","e","a","t">>,
    <<"h","i">> }

KeywordTexts ==
  {<<>>} \cup KeywordWords \cup {a \o <<" ">> \o b : a, b \in KeywordWords}

\* scores: the score of every label of the table, -1 for a label that has
\* no match and gets no entry.
scores(table, text) ==
  [k \in 1..Len(table) |-> label_score(table[k].keywords, text)]

InitKeyword ==
  /\ OPENAI_AVAILABLE = FALSE
  /\ db = <<>>
  /\ metrics = [total_taggings |-> 0, successful_taggings |-> 0, error_count |-> 0]
  /\ last = NoLast
  /\ constructed = NotConstructed
  /\ tasks = NoTasks
  /\ report = NoReport

\* keyword_result = self.keyword_engine.tag_text(combined_text)
keyword_tag_text(text) ==
  /\ report' = [op |-> "tag_text", text |-> text,
                service_scores |-> scores(service_keywords, strip(lower(text))),
                service |-> find_service_type(strip(lower(text))),
                category_scores |-> scores(category_keywords, strip(lower(text))),
                category |-> find_category(strip(lower(text)))]
  /\ UNCHANGED <<OPENAI_AVAILABLE, db, metrics, last, constructed, tasks>>

NextKeyword ==
  \E text \in KeywordTexts : keyword_tag_text(text)

SpecKeyword ==
  InitKeyword /\ [][NextKeyword]_vars

----------------------------------------------------------------------------
\* The webhook: receive_message_webhook hands the batch of the payload to
\* ProcessMessageUseCase.execute.

\* execute(conversation_id, messages): the first message of the batch goes
\* to add_message_to_ticket when the conversation has a ticket, the whole
\* batch to create_ticket when it has none.
execute(conversation_id, messages, outcome) ==
  IF conversation_id \in DOMAIN db
  THEN add_message_to_ticket(conversation_id, messages[1], outcome)
  ELSE create_ticket(conversation_id, messages, outcome)

NextWebhook ==
  \E c \in Conversations, b \in Batches, o \in OutcomesNow : execute(c, b, o)

SpecWebhook ==
  Init /\ [][NextWebhook]_vars
----------------------------------------------------------------------------
\* Properties.  `last` records what the last handler did: the tag before,
\* the tagging it computed, whether it replaced the tag, the tag after.

DefaultPair(x) ==
  x.service_type = "Other" /\ x.category = "Others"

BothAxes(x) ==
  x.service_type # None /\ x.category # None

\* C1: in update_ticket_tags on an open ticket with a user message, the
\* update decision is true iff the new result is successful and (the
\* current tag is not axis-complete, or the new confidence is strictly
\* greater, or the current tag is the default pair); the ticket's tag is
\* the new result's tag exactly when the decision is true and is left as it
\* was otherwise, and what is stored is that tag.
C1_UpdateDecision ==
  (last.op = "add_message_to_ticket" /\ last.tagged) =>
    LET new      == last.tagging.result
        current  == last.before
        decision == /\ (new.service_type # None \/ new.category # None)
                    /\ \/ ~BothAxes(current)
                       \/ new.confidence_score > current.confidence
                       \/ DefaultPair(current)
    IN  /\ last.updated = decision
        /\ last.after = IF decision THEN to_tag(new) ELSE current
        /\ db[last.conversation].current_tag = last.after

\* C1: a complete, non-default tag replaced by a strictly more confident result.
C1_Witness ==
  /\ last.op = "add_message_to_ticket" /\ last.tagged /\ last.updated
  /\ BothAxes(last.before) /\ ~DefaultPair(last.before)
  /\ last.tagging.result.confidence_score > last.before.confidence
  /\ last.after = to_tag(last.tagging.result)

\* C2: add_message_to_ticket never replaces a current tag that is
\* axis-complete and not the default pair by a result whose confidence is
\* strictly lower than the current tag's.
C2_NeverLowered ==
  (last.op = "add_message_to_ticket" /\ BothAxes(last.before) /\ ~DefaultPair(last.before)) =>
    /\ db[last.conversation].current_tag.confidence >= last.before.confidence
    /\ (last.tagged /\ last.tagging.result.confidence_score < last.before.confidence)
         => (~last.updated /\ last.after = last.before
             /\ db[last.conversation].current_tag = last.before)

\* C2: a strictly less confident result arrives for a complete, non-default
\* tag and the tag is kept.
C2_Witness ==
  /\ last.op = "add_message_to_ticket" /\ last.tagged
  /\ BothAxes(last.before) /\ ~DefaultPair(last.before)
  /\ last.tagging.result.confidence_score < last.before.confidence
  /\ ~last.updated
  /\ db[last.conversation].current_tag = last.before

\* C3, as stated: a replacement by a result of equal or lower confidence
\* happens only when the current tag is the default pair; every other
\* replacement strictly increases the confidence.
C3_OnlyDefaultDisplaced ==
  (last.op = "add_message_to_ticket" /\ last.updated) =>
    \/ DefaultPair(last.before)
    \/ last.after.confidence > last.before.confidence

\* C3, amended: a replacement by a result of equal or lower confidence
\* happens only when the current tag is the default pair or is not
\* axis-complete; every other replacement strictly increases the confidence.
C3_OnlyDefaultOrIncompleteDisplaced ==
  (last.op = "add_message_to_ticket" /\ last.updated) =>
    \/ DefaultPair(last.before)
    \/ ~BothAxes(last.before)
    \/ last.after.confidence > last.before.confidence

\* C3: a tag with one axis unset replaced by a result that is not more
\* confident.
C3_Witness ==
  /\ last.op = "add_message_to_ticket" /\ last.updated
  /\ ~BothAxes(last.before) /\ ~DefaultPair(last.before)
  /\ last.after.confidence <= last.before.confidence
  /\ last.after = to_tag(last.tagging.result)

\* C4: when the current tag is the default pair and the new result is
\* successful and not the default pair, update_ticket_tags replaces the tag
\* by the new result, whatever the two confidences are.
C4_DefaultAlwaysReplaced ==
  (/\ last.op = "update_ticket_tags" /\ last.tagged
   /\ DefaultPair(last.before)
   /\ is_successful(last.tagging.result)
   /\ ~DefaultPair(last.tagging.result)) =>
    /\ last.updated
    /\ last.after = to_tag(last.tagging.result)
    /\ db[last.conversation].current_tag = to_tag(last.tagging.result)

\* C4: a default tag replaced by a non-default result that is not more
\* confident.
C4_Witness ==
  /\ last.op = "update_ticket_tags" /\ last.tagged
  /\ DefaultPair(last.before)
  /\ is_successful(last.tagging.result) /\ ~DefaultPair(last.tagging.result)
  /\ last.tagging.result.confidence_score <= last.before.confidence
  /\ last.updated /\ last.after = to_tag(last.tagging.result)

\* C5, as stated: Layer 2 is never invoked when the Layer 1 result has
\* confidence >= 0.7 and is axis-complete, and is always invoked when the
\* ticket has more than one user message.
C5_EscalationAsStated ==
  (last.tagged /\ last.tagging.layer1) =>
    /\ (last.tagging.keyword_result.confidence_score >= 70
        /\ BothAxes(last.tagging.keyword_result)) => ~last.tagging.layer2
    /\ last.n_user_messages > 1 => last.tagging.layer2

\* C5, amended: Layer 2 is never invoked when the Layer 1 result has
\* confidence >= 0.7 and is axis-complete, and is always invoked when the
\* ticket has more than one user message and the Layer 1 confidence is
\* below 0.7.
C5_Escalation ==
  (last.tagged /\ last.tagging.layer1) =>
    /\ (last.tagging.keyword_result.confidence_score >= 70
        /\ BothAxes(last.tagging.keyword_result)) => ~last.tagging.layer2
    /\ (last.n_user_messages > 1
        /\ last.tagging.keyword_result.confidence_score < 70) => last.tagging.layer2

\* C5: several user messages, a Layer 1 confidence between 0.5 and 0.7, and
\* Layer 2 invoked.
C5_Witness ==
  /\ last.tagged /\ last.tagging.layer1
  /\ last.n_user_messages > 1
  /\ last.tagging.keyword_result.confidence_score >= 50
  /\ last.tagging.keyword_result.confidence_score < 70
  /\ last.tagging.layer2

\* C6: after escalation tag_ticket returns the semantic result iff the
\* semantic confidence is strictly greater than the keyword confidence, or
\* the semantic result is axis-complete while the keyword result is not;
\* in every other case it returns the keyword result.
C6_SelectionRule ==
  (last.tagged /\ last.tagging.layer2) =>
    LET keyword  == last.tagging.keyword_result
        semantic == last.tagging.agentic_result
        prefer   == \/ semantic.confidence_score > keyword.confidence_score
                    \/ BothAxes(semantic) /\ ~BothAxes(keyword)
    IN  last.tagging.result = IF prefer THEN semantic ELSE keyword

\* C7: constructing a TaggingResult or a Tag succeeds for a confidence in
\* [0, 1] and fails with a validation error for a confidence outside it.
C7_ConstructionValidates ==
  (constructed.type # "") =>
    (constructed.raised = "ValueError"
       <=> (constructed.confidence < 0 \/ constructed.confidence > 100))

\* The keywords of a table, as a set.
KeywordsOf(table) ==
  UNION {{table[r].keywords[k] : k \in 1..Len(table[r].keywords)} : r \in 1..Len(table)}

\* The pieces of a text that start and end at a word boundary: what a
\* pattern \bkeyword\b can match.
BoundedPieces(text) ==
  {SubSeq(text, i, j) : <<i, j>> \in
     {p \in (1..Len(text)) \X (1..Len(text)) :
        p[1] <= p[2] /\ BoundaryAt(text, p[1]) /\ BoundaryAt(text, p[2] + 1)}}

\* The combined texts in which no keyword of either axis has a match.
UnmatchedTexts ==
  {text \in CombinedTexts :
     BoundedPieces(strip(lower(text)))
       \cap (KeywordsOf(service_keywords) \cup KeywordsOf(category_keywords)) = {}}

\* C8: for a text in which no keyword of either axis has a match (empty and
\* whitespace-only text included), tag_text returns service type Other,
\* category Others, confidence 0.0 and method keywords_default.
C8_NoMatchDefault ==
  (last.tagged /\ last.tagging.layer1 /\ last.combined_text \in UnmatchedTexts) =>
    last.tagging.keyword_result =
      [service_type |-> "Other", category |-> "Others",
       confidence_score |-> 0, method_used |-> "keywords_default"]

\* C8: tag_text ran on a whitespace-only text.
C8_Witness ==
  /\ last.tagged /\ last.tagging.layer1
  /\ last.combined_text \in UnmatchedTexts
  /\ Len(last.combined_text) > 0 /\ strip(last.combined_text) = <<>>
  /\ last.tagging.keyword_result.method_used = "keywords_default"

\* Which axes the fallback pass resolves for a text: some word of some row
\* of the axis occurs in the lowered text.
Resolves(table, text) ==
  \E word \in KeywordsOf(table) : Contains(lower(text), word)

fallback_resolved ==
  [text \in {strip(t) : t \in CombinedTexts} |->
     [service  |-> Resolves(fallback_service_words, text),
      category |-> Resolves(fallback_category_words, text)]]

\* The tiers of the fallback pass for a result r of tag_conversation on text.
FallbackTiers(r, text) ==
  LET resolved == fallback_resolved[strip(text)]
  IN  /\ r.method_used = "agentic_fallback"
      /\ (resolved.service /\ resolved.category) =>
           (r.confidence_score = 70 /\ BothAxes(r))
      /\ (resolved.service /\ ~resolved.category) =>
           (r.confidence_score = 50 /\ r.service_type # None /\ r.category = None)
      /\ (~resolved.service /\ resolved.category) =>
           (r.confidence_score = 50 /\ r.service_type = None /\ r.category # None)
      /\ (~resolved.service /\ ~resolved.category) =>
           (r.confidence_score = 30 /\ DefaultPair(r))

\* C9, as stated: in provider-unavailable mode tag_conversation on
\* non-empty text returns method agentic_fallback with confidence 0.7 when
\* both axes resolved, 0.5 when exactly one resolved (the other unset) and
\* 0.3 with (Other, Others) when neither resolved.
C9_FallbackOnNonEmpty ==
  (last.tagged /\ last.tagging.layer2 /\ ~OPENAI_AVAILABLE
   /\ Len(last.combined_text) > 0) =>
    FallbackTiers(last.tagging.agentic_result, last.combined_text)

\* C9, amended: the same for a text that is non-empty once leading and
\* trailing whitespace is removed.
C9_FallbackOnNonBlank ==
  (last.tagged /\ last.tagging.layer2 /\ ~OPENAI_AVAILABLE
   /\ strip(last.combined_text) # <<>>) =>
    FallbackTiers(last.tagging.agentic_result, last.combined_text)

\* C9: the fallback pass resolved exactly one axis.
C9_Witness ==
  /\ last.tagged /\ last.tagging.layer2 /\ ~OPENAI_AVAILABLE
  /\ strip(last.combined_text) # <<>>
  /\ fallback_resolved[strip(last.combined_text)].service
  /\ ~fallback_resolved[strip(last.combined_text)].category
  /\ last.tagging.agentic_result.confidence_score = 50
  /\ last.tagging.agentic_result.category = None

\* C10: tag_conversation never propagates an exception: a failure of the
\* provider call, of the parsing of its response or of the metric update is
\* caught, and the call returns (Other, Others, 0.0, agentic_error).
C10_NeverPropagates ==
  (last.tagged /\ last.tagging.layer2) =>
    /\ last.tagging.propagated = ""
    /\ (last.outcome.kind \in {"raise", "malformed"} \/ last.tagging.errors > 0) =>
         last.tagging.agentic_result =
           [service_type |-> "Other", category |-> "Others",
            confidence_score |-> 0, method_used |-> "agentic_error"]

\* C10: the provider call timed out and the caller got the error result.
C10_Witness ==
  /\ last.tagged /\ last.tagging.layer2
  /\ last.outcome.kind = "raise" /\ last.outcome.exception = "TimeoutError"
  /\ last.tagging.propagated = ""
  /\ last.tagging.agentic_result.method_used = "agentic_error"
  /\ last.op = "create_ticket" => last.conversation \in DOMAIN db


----------------------------------------------------------------------------
\* C11: every classification attempt ends with a result even when the
\* provider never answers, the wait for Runner.run being bounded by a
\* timeout: a coroutine that awaits the provider always leaves the await.
C11_ProviderCallBounded ==
  \A t \in TaskIds : (tasks[t].pc = "awaiting") ~> (tasks[t].pc # "awaiting")

\* C12: the read-modify-write of the tag is serialized per conversation:
\* a save never replaces the persisted tag by one that should_update would
\* have rejected against the tag persisted when the save is made.
C12_WriteRespectsMergePolicy ==
  last.op = "save" => should_update(last.before, last.tagging.result)

\* The six conditions of a corner case, each under its reason code.
Triggered(ticket) ==
  [low_confidence         |-> ticket.current_tag.confidence < 50,
   default_fallback       |-> ticket.current_tag.service_type = "Other"
                              /\ ticket.current_tag.category = "Others",
   missing_classification |-> ticket.current_tag.service_type = None
                              \/ ticket.current_tag.category = None,
   no_user_messages       |-> Len(SelectSeq(ticket.messages, is_user_message)) = 0,
   long_conversation      |-> Len(SelectSeq(ticket.messages, is_user_message)) > 10,
   short_message          |-> Len(strip(get_combined_text(ticket.messages))) < 10]

TriggeredCodes(ticket) ==
  {code \in DOMAIN Triggered(ticket) : Triggered(ticket)[code]}

\* C13: a ticket is flagged as a corner case exactly when one of the six
\* conditions holds, and the ticket service and the dashboard give the same
\* answer for every ticket.
C13_CornerCaseIffAnyCondition ==
  report.op = "corner_case" =>
    /\ report.is_corner_case = (TriggeredCodes(report.ticket) # {})
    /\ report.dashboard_is_corner_case = report.is_corner_case

\* A complete tag of confidence 0.5 or more on ten long user messages: no
\* condition holds and the ticket is not flagged.
C13_Witness ==
  /\ report.op = "corner_case"
  /\ ~report.is_corner_case
  /\ Len(get_user_messages(report.ticket.messages)) = 10
  /\ report.ticket.current_tag.confidence = 50

\* C14: the reason codes reported for a ticket are exactly the codes of the
\* conditions that hold for it.
C14_CodesAreUnion ==
  report.op = "corner_case" =>
    {report.corner_case_type} \ {"other"} = TriggeredCodes(report.ticket)

\* A ticket has just been created from one user message in which no Layer 1
\* keyword has a match.
CreatedFromUnmatched ==
  /\ last.op = "create_ticket" /\ last.saved
  /\ last.n_user_messages = 1
  /\ last.combined_text \in UnmatchedTexts

ProviderCallEnded(kind) ==
  /\ last.tagged /\ last.tagging.layer2
  /\ OPENAI_AVAILABLE
  /\ strip(last.combined_text) # <<>>
  /\ last.outcome.kind = kind

\* C16 as stated: when the provider call fails or times out,
\* tag_conversation returns the result of the local fallback analysis of the
\* same text.
C16_FailureFallsBack ==
  ProviderCallEnded("raise") =>
    last.tagging.agentic_result = fallback_results[strip(last.combined_text)]

\* C16: when the provider call raises (a failure or a timeout error),
\* tag_conversation does not run the fallback analysis: it returns
\* (Other, Others, 0.0, agentic_error) and counts one error.
C16_FailureGivesErrorResult ==
  ProviderCallEnded("raise") =>
    /\ last.tagging.path # "fallback"
    /\ last.tagging.agentic_result.method_used # "agentic_fallback"
    /\ last.tagging.agentic_result = create_error_result("analysis_error")
    /\ last.tagging.errors = 1

\* C16: the call timed out on a text for which the fallback analysis would
\* have resolved an axis.
C16_Witness ==
  /\ ProviderCallEnded("raise")
  /\ last.outcome.exception = "TimeoutError"
  /\ fallback_results[strip(last.combined_text)].confidence_score >= 50
  /\ last.tagging.agentic_result.confidence_score = 0

\* C17: when the provider returns a response that is parsed without error,
\* tag_conversation returns the parsed result, with method
\* ai_agent_analysis.
C17_ParsedResponseReturned ==
  ProviderCallEnded("response") =>
    /\ last.tagging.agentic_result = parse_ai_response(last.outcome)
    /\ last.tagging.agentic_result.method_used = "ai_agent_analysis"

\* The method of the result tag_conversation gives for the text of the last
\* call when Runner.run ends in the given way.
MethodWhen(outcome) ==
  tag_conversation(<<last.combined_text>>, TRUE, outcome).result.method_used

\* C18: a response that cannot be parsed and a provider that cannot be
\* reached both give the default pair at confidence 0.0, under two
\* different method tags.
C18_FailuresToldApart ==
  (ProviderCallEnded("raise") \/ ProviderCallEnded("malformed")) =>
    /\ is_default_tag(to_tag(last.tagging.agentic_result))
    /\ last.tagging.agentic_result.confidence_score = 0
    /\ MethodWhen([kind |-> "malformed", exception |-> "", final_output |-> <<>>])
         # MethodWhen([kind |-> "raise", exception |-> "ProviderError",
                       final_output |-> <<>>])

\* C19: every invocation of tag_conversation adds one to total_taggings, and
\* one to successful_taggings exactly when the returned confidence is above
\* 0.5.
C19_MetricsOnEveryInvocation ==
  [][(last' # last /\ last'.tagged /\ last'.tagging.layer2) =>
       /\ metrics'.total_taggings = metrics.total_taggings + 1
       /\ metrics'.successful_taggings = metrics.successful_taggings +
            (IF last'.tagging.agentic_result.confidence_score > 50 THEN 1 ELSE 0)]_vars

\* The ways of announcing the confidence that the pattern
\* confidence[:\s]*(\d*\.?\d+) accepts in front of a number.
AnnouncesConfidence ==
  { <<"c","o","n","f","i","d","e","n","c","e">>,
    <<"c","o","n","f","i","d","e","n","c","e",":">>,
    <<"c","o","n","f","i","d","e","n","c","e",":"," ">> }

\* What min(1.0, max(0.0, float(n))) is, in hundredths, for the ways of
\* writing a number; -1 where the pattern finds no number.
ClampedNumber ==
  (<<>> :> -1)
  @@ (<<"h","i","g","h">> :> -1)
  @@ (<<"0">> :> 0)
  @@ (<<"0",".","9">> :> 90)
  @@ (<<".","2","5">> :> 25)
  @@ (<<"1",".","5">> :> 100)
  @@ (<<"7">> :> 100)
  @@ (<<"-","0",".","5">> :> -1)

\* The response that was parsed is made of an announcement and a number the
\* pattern accepts.
NumberAnnounced(t, n) ==
  t \in AnnouncesConfidence /\ ClampedNumber[n] >= 0

\* The extracted confidence is the announced number clamped into [0, 1], and
\* default where no number is announced.
ExtractedOrDefault(default) ==
  \A p \in ResponsePrefixes, t \in ResponseTokens, n \in ResponseNumbers :
    report.response_text = p \o t \o n =>
      report.extracted.confidence_score =
        IF NumberAnnounced(t, n) THEN ClampedNumber[n] ELSE default

\* C20 as stated: the extracted confidence is the number after the
\* "confidence:" token clamped into [0, 1], and 0.7 when the response holds
\* no such number.
C20_DefaultSeventy ==
  report.op = "parse_ai_response" => ExtractedOrDefault(70)

\* C20: the extracted confidence is the number after the "confidence" token
\* clamped into [0, 1], and 0.5 when the response holds no such number.
C20_DefaultFifty ==
  report.op = "parse_ai_response" => ExtractedOrDefault(50)

\* C20: a response that announces a confidence in words; 0.5 is extracted.
C20_Witness ==
  /\ report.op = "parse_ai_response"
  /\ report.response_text =
       <<"c","o","n","f","i","d","e","n","c","e",":"," ","h","i","g","h">>
  /\ report.extracted.confidence_score = 50

----------------------------------------------------------------------------
\* One ticket is more problematic than another, as the listing is meant to
\* rank them: lower confidence; at equal confidence a corner case (unset
\* axis or default pair) before others; then the later updated_at.
MoreProblematic(a, b) ==
  \/ a.current_tag.confidence < b.current_tag.confidence
  \/ /\ a.current_tag.confidence = b.current_tag.confidence
     /\ \/ (~is_complete(a.current_tag) \/ is_default_tag(a.current_tag))
           /\ ~(~is_complete(b.current_tag) \/ is_default_tag(b.current_tag))
        \/ /\ (~is_complete(a.current_tag) \/ is_default_tag(a.current_tag))
                = (~is_complete(b.current_tag) \/ is_default_tag(b.current_tag))
           /\ a.updated_at >= b.updated_at

\* C21: get_problematic_tickets lists the tickets by ascending confidence,
\* then corner cases before others, then the most recently updated first.
C21_ListingOrder ==
  (report.op = "get_problematic_tickets" /\ Len(report.listing) = 2) =>
    MoreProblematic(db[report.listing[1]], db[report.listing[2]])

\* The tickets that have confidence below 0.5 or an unset axis.
CriticalTickets ==
  {c \in DOMAIN db : db[c].current_tag.confidence < 50
                     \/ db[c].current_tag.service_type = None
                     \/ db[c].current_tag.category = None}

\* C22: the critical count is the number of tickets with confidence below
\* 0.5 or an unset axis, each counted once, so it never exceeds the number
\* of tickets; the warning count is the number of tickets tagged with the
\* default pair.
C22_SeverityCounts ==
  report.op = "get_corner_case_stats" =>
    /\ report.stats.critical = Cardinality(CriticalTickets)
    /\ report.stats.critical <= Cardinality(DOMAIN db)
    /\ report.stats.warning =
         Cardinality({c \in DOMAIN db : is_default_tag(db[c].current_tag)})

\* C22: one ticket of low confidence and one with an unset axis; both are
\* critical and the first is the warning.
C22_Witness ==
  /\ report.op = "get_corner_case_stats"
  /\ db["c1"].current_tag.confidence < 50
  /\ db["c2"].current_tag.category = None
  /\ report.stats.critical = 2
  /\ report.stats.warning = 1

\* C29: the four confidence ranges partition the tickets: their counts sum
\* to the number of tickets.
C29_RangesPartition ==
  report.op = "get_corner_case_stats" =>
    report.stats.confidence_distribution.very_low
      + report.stats.confidence_distribution.low
      + report.stats.confidence_distribution.medium
      + report.stats.confidence_distribution.high
    = report.stats.total_tickets

\* The position, from 0, of the keyword of the list that is the match.
MatchedIndex(keywords, match) ==
  (CHOOSE k \in 1..Len(keywords) : keywords[k] = match) - 1

RECURSIVE SumMatchedIndex(_, _)
SumMatchedIndex(keywords, matches) ==
  IF Len(matches) = 0 THEN 0
  ELSE MatchedIndex(keywords, matches[1]) + SumMatchedIndex(keywords, Tail(matches))

\* In tenths: the number of matches plus 0.1 times the positions of the
\* keywords that matched; -1 for a label without a match.
StatedScore(keywords, matches) ==
  IF Len(matches) = 0 THEN -1
  ELSE 10 * Len(matches) + SumMatchedIndex(keywords, matches)

StatedScores(table, text) ==
  [k \in 1..Len(table) |-> StatedScore(table[k].keywords, findall(table[k].keywords, text, 1))]

\* The greatest score of an axis, 0 when no label has a match.
TopScore(axis_scores) ==
  CHOOSE s \in {0} \cup {axis_scores[k] : k \in DOMAIN axis_scores} :
    s >= 0 /\ \A k \in DOMAIN axis_scores : axis_scores[k] <= s

\* C23: the score of a label is the number of its whole-word matches plus
\* 0.1 times the sum of the list positions of the keywords that matched, and
\* the confidence of the axis is min(0.3 x winning score, 1.0).
C23_ScoreFormula ==
  report.op = "tag_text" =>
    /\ report.service_scores = StatedScores(service_keywords, strip(lower(report.text)))
    /\ report.category_scores = StatedScores(category_keywords, strip(lower(report.text)))
    /\ report.service.confidence = min(3 * TopScore(report.service_scores), 100)
    /\ report.category.confidence = min(3 * TopScore(report.category_scores), 100)

\* The label the axis is given: the first declared of the labels with the
\* greatest score, None when no label has a match.
FirstOfTop(table, axis_scores) ==
  IF \A k \in DOMAIN axis_scores : axis_scores[k] < 0 THEN None
  ELSE table[CHOOSE k \in DOMAIN axis_scores :
               /\ axis_scores[k] = TopScore(axis_scores)
               /\ \A j \in 1..(k - 1) : axis_scores[j] < axis_scores[k]].label

\* C24: each axis gets the label of greatest score, the first declared one
\* when several labels share it, and is unset exactly when no label of the
\* axis has a match.
C24_FirstDeclaredMaximum ==
  report.op = "tag_text" =>
    /\ report.service.label = FirstOfTop(service_keywords, report.service_scores)
    /\ report.category.label = FirstOfTop(category_keywords, report.category_scores)
    /\ (report.service.label = None) =
         (\A k \in DOMAIN report.service_scores : report.service_scores[k] < 0)
    /\ (report.category.label = None) =
         (\A k \in DOMAIN report.category_scores : report.category_scores[k] < 0)

\* C24: "hotel flight": Flight and Hotel both score 1.0 and Flight, declared
\* first, is the service type; no category keyword matches.
C24_Witness ==
  /\ report.op = "tag_text"
  /\ report.text = <<"h","o","t","e","l"," ","f","l","i","g","h","t">>
  /\ report.service_scores[1] = 10 /\ report.service_scores[2] = 10
  /\ report.service.label = "Flight"
  /\ report.category.label = None

\* C25: tag_ticket invokes the Semantic Classifier exactly when the Layer 1
\* result is not (successful with confidence >= 0.7) and the ticket has
\* more than one user message or the Layer 1 confidence is below 0.5; with
\* exactly one user message and a Layer 1 confidence in [0.5, 0.7) Layer 2
\* is not invoked and the Layer 1 result is returned unchanged.
C25_InvokedExactlyWhen ==
  (last.tagged /\ last.tagging.layer1) =>
    /\ last.tagging.layer2 <=>
         /\ ~(/\ is_successful(last.tagging.keyword_result)
              /\ last.tagging.keyword_result.confidence_score >= 70)
         /\ \/ last.n_user_messages > 1
            \/ last.tagging.keyword_result.confidence_score < 50
    /\ (/\ last.n_user_messages = 1
        /\ last.tagging.keyword_result.confidence_score >= 50
        /\ last.tagging.keyword_result.confidence_score < 70) =>
         /\ ~last.tagging.layer2
         /\ last.tagging.result = last.tagging.keyword_result

\* C25: one user message, a Layer 1 confidence in [0.5, 0.7), no Layer 2
\* and the Layer 1 result returned.
C25_Witness ==
  /\ last.tagged /\ last.tagging.layer1
  /\ last.n_user_messages = 1
  /\ last.tagging.keyword_result.confidence_score >= 50
  /\ last.tagging.keyword_result.confidence_score < 70
  /\ ~last.tagging.layer2
  /\ last.tagging.result = last.tagging.keyword_result

\* C30: for a ticket whose status is not open, add_message_to_ticket never
\* changes the current tag, whatever message is appended: update_ticket_tags
\* returns False without classifying.
C30_NotOpenKeepsTag ==
  (/\ last.op = "add_message_to_ticket"
   /\ db[last.conversation].status # "open") =>
    /\ ~last.tagged /\ last.tagging = NoTagging
    /\ ~last.updated
    /\ last.after = last.before
    /\ db[last.conversation].current_tag = last.before

\* C30: a user message appended to a ticket that is not open and carries
\* the default pair, which any successful result would replace.
C30_Witness ==
  /\ last.op = "add_message_to_ticket"
  /\ db[last.conversation].status # "open"
  /\ last.n_user_messages > 0
  /\ DefaultPair(last.before)
  /\ is_successful(keyword_results[last.combined_text])
  /\ ~DefaultPair(keyword_results[last.combined_text])
  /\ db[last.conversation].current_tag = last.before

\* C26: after add_message_to_ticket returns a ticket, the appended message
\* is part of the stored ticket: the stored message sequence is the one
\* before the call with the message at its end, whether or not the call
\* updated the tag.
C26_AppendedMessageDurable ==
  [][(/\ last' # last
      /\ last'.op = "add_message_to_ticket") =>
       /\ Len(db'[last'.conversation].messages)
            = Len(db[last'.conversation].messages) + 1
       /\ SubSeq(db'[last'.conversation].messages, 1,
                 Len(db[last'.conversation].messages))
            = db[last'.conversation].messages]_vars

\* C27: when a webhook batch arrives for a conversation that already has a
\* ticket, every message of the batch is appended to the ticket, in order;
\* stated on the calls that store the ticket.
C27_WholeBatchAppended ==
  [][\A c \in Conversations, b \in Batches, o \in OutcomesNow :
       (/\ c \in DOMAIN db
        /\ execute(c, b, o)
        /\ last'.saved) =>
         db'[c].messages = db[c].messages \o b]_vars

\* C28: when two add_message_to_ticket executions for the same conversation
\* interleave and both save, the stored message sequence contains both
\* appended messages: no save replaces the stored messages by a snapshot
\* that lacks a message stored since it was taken, so every save extends
\* the stored sequence by the message its execution appended.
C28_NoStaleSnapshotSaved ==
  [][\A t \in TaskIds :
       save(t) =>
         /\ Len(db'[tasks[t].conversation].messages)
              = Len(db[tasks[t].conversation].messages) + 1
         /\ SubSeq(db'[tasks[t].conversation].messages, 1,
                   Len(db[tasks[t].conversation].messages))
              = db[tasks[t].conversation].messages]_vars
====
